---- MODULE Spec2Model ----
(***************************************************************************)
(* Model of data_utils/__init__.py (puraminy/GLM): make_dataset and        *)
(* get_dataset run by every rank of a torch.distributed job against one    *)
(* shared filesystem.  Rank 0 builds the lazy store of a corpus with two   *)
(* LazyWriters, the other ranks poll for a length-index file, and every    *)
(* rank then opens two LazyLoaders.                                        *)
(***************************************************************************)
EXTENDS Integers, Sequences, FiniteSets, TLC

VARIABLES
    path,       \* make_dataset argument `path`: the list of corpus names
    isStr,      \* isinstance(path, str): a single name instead of a list
    split,      \* make_dataset argument `split` after line 117-118
    fs,         \* the filesystem: per stream (path, data_type) its blob and index
    pc,         \* per rank: the statement it is about to execute
    pos,        \* per rank: index in `path` of the current get_dataset call
    writers,    \* per rank: streams on which it holds an open LazyWriter
    readers,    \* per rank: streams on which it has opened a LazyLoader
    io,         \* per rank: it opened a writer or a reader, or polled for an index
    err,        \* per rank: the exception that ended its make_dataset, or "none"
    wopened,    \* per stream: number of LazyWriter constructions so far
    wclosed,    \* per stream: number of LazyWriter.close() so far
    wby,        \* ranks that constructed a LazyWriter
    builds,     \* per corpus: number of runs of the corpus reader
    fs0,        \* the filesystem at job start
    crashed,    \* rank 0 was terminated in the middle of a build
    pre_tokenize,           \* make_dataset argument
    ds_type,                \* make_dataset argument, a string as its characters
    sample_one_document,    \* make_dataset argument
    save_test_data,         \* make_dataset argument: "None" or a file name
    warr,       \* per stream: the is_array its blob was written with, or "none"
    ds,         \* per rank: what its get_dataset calls returned so far
    result,     \* per rank: what make_dataset returned
    split_called,   \* per rank: it called split_ds
    testfile,   \* the file named by save_test_data
    tby         \* ranks that opened the test-data file for writing

\* the keyword arguments, which no step changes
args == <<pre_tokenize, ds_type, sample_one_document, save_test_data>>

\* what lines 143-157 produce
outs == <<result, split_called, testfile, tby>>

vars == <<path, isStr, split, fs, pc, pos, writers, readers, io, err,
          wopened, wclosed, wby, builds, fs0, crashed, args, warr, ds, outs>>

\* ---------------------------------------------------------------- bounds
NumRanks == 2
MaxPaths == 2

Ranks == 0 .. (NumRanks - 1)

\* ---------------------------------------------------------------- corpora
Names == {"prompt_corpus", "key_corpus", "unregistered"}

NAMED_CORPORA == [prompt_corpus |-> "PromptReader", key_corpus |-> "KeyReader"]

supported_corpus(corpus_name) == corpus_name \in DOMAIN NAMED_CORPORA

Corpora == DOMAIN NAMED_CORPORA

IsPromptReader(name) == NAMED_CORPORA[name] = "PromptReader"

\* an elif that repeats the first test
IsKeyReaderTypo(name) == NAMED_CORPORA[name] = "PromptReader"

\* line 85: elif issubclass(dataset, corpora.KeyReader)
IsKeyReader(name) == NAMED_CORPORA[name] = "KeyReader"

\* the record view a branch of get_dataset returns (lines 75, 101)
ViewOf(name) == IF IsPromptReader(name) THEN "PromptDataset" ELSE "KeyDataset"

\* the two data_types probed by exists_lazy, in evaluation order
ExistsOrder(name) ==
    IF IsPromptReader(name) THEN <<"prompt", "text">> ELSE <<"text", "mask">>

\* the two data_types on which rank 0 constructs LazyWriters, in order
WriterOrder(name) ==
    IF IsPromptReader(name) THEN <<"prompt", "text">> ELSE <<"text", "mask">>

\* the order in which rank 0 closes the writers
CloseOrder(name) ==
    IF IsPromptReader(name) THEN <<"prompt", "text">> ELSE <<"mask", "text">>

\* the data_type whose length-index file the other ranks poll for
PollTag(name) == IF IsPromptReader(name) THEN "prompt" ELSE "mask"

\* the order in which the LazyLoaders are constructed
ReaderOrder(name) ==
    IF IsPromptReader(name) THEN <<"prompt", "text">> ELSE <<"mask", "text">>

StreamsOf(name) == {<<name, ExistsOrder(name)[1]>>, <<name, ExistsOrder(name)[2]>>}

Streams == UNION {StreamsOf(c) : c \in Corpora}

\* torch.distributed.get_rank() == 0
IsBuilderAnyRank(p) == TRUE
IsBuilder(p) == p = 0

\* ---------------------------------------------------------------- lazy store
Absent == [blob |-> "none", idx |-> FALSE]
Final == [blob |-> "full", idx |-> TRUE]

exists_lazy(s) == fs[s].blob # "none" /\ fs[s].idx

len_path_exists(s) == fs[s].idx

\* LazyWriter(path, data_type): creates or truncates the blob; the index file is
\* written by close() only
LazyWriter(s) == [fs EXCEPT ![s].blob = "part"]

LazyWriter_close(s) == [fs EXCEPT ![s] = Final]

LazyLoader_ok(s) == fs[s].blob # "none" /\ fs[s].idx

\* the content of a blob: token arrays or raw text
ArrStr(is_array) == IF is_array THEN "array" ELSE "text"

\* lines 61-62, 89-90: is_array of the writers (the mask writer: True)
WriterIsArray(s, pt) == IF s[2] = "mask" THEN TRUE ELSE pt

\* lines 71-74, 99-100: is_array of the readers (the mask reader: True)
ReaderIsArray(s, pt) == IF s[2] = "mask" THEN TRUE ELSE pt

\* lines 76, 102: to_tokenize=not pre_tokenize
to_tokenize == ~pre_tokenize

\* ---------------------------------------------------------------- split
RECURSIVE SumSeq(_)
SumSeq(s) == IF s = <<>> THEN 0 ELSE Head(s) + SumSeq(Tail(s))

RECURSIVE MaxSeq(_)
MaxSeq(s) == IF Len(s) = 1 THEN s[1]
             ELSE IF Head(s) >= MaxSeq(Tail(s)) THEN Head(s) ELSE MaxSeq(Tail(s))

RECURSIVE GCD(_, _)
GCD(a, b) == IF b = 0 THEN a ELSE GCD(b, a % b)

Abs(x) == IF x < 0 THEN -x ELSE x

\* x / y for y # 0: the quotient as a fraction in lowest terms with a positive
\* denominator.  A proportion list is modelled by integers proportional to it
\* ([1, .1, .2] by <<10, 1, 2>>), which leaves max/sum as it is.
TrueDiv(x, y) ==
    LET g == GCD(Abs(x), Abs(y))
        sgn == IF y < 0 THEN -1 ELSE 1
    IN  <<sgn * (x \div g), sgn * (y \div g)>>

\* max(split) / sum(split) != 1. ; the division raises when the sum is 0
should_split_raises(s) == SumSeq(s) = 0

\* "all but one entry are zero" in the place of the quotient
should_split_one_nonzero(s) == Cardinality({k \in 1 .. Len(s) : s[k] # 0}) # 1

should_split(s) == TrueDiv(MaxSeq(s), SumSeq(s)) # <<1, 1>>

Splits == {<<1>>, <<0, 0>>, <<2, -1>>}

\* split_ds(ds, split, ...): one entry per proportion, a subset of the dataset
\* sized by the proportion, or None for a proportion of 0
split_ds(s) == [k \in 1 .. Len(s) |-> IF s[k] = 0 THEN "None" ELSE "SplitDataset"]

\* ---------------------------------------------------------------- framing
\* str.lower() on the letters that occur in the ds_type values
LowerChar(c) ==
    CASE c = "B" -> "b" [] c = "C" -> "c" [] c = "E" -> "e" [] c = "G" -> "g"
      [] c = "K" -> "k" [] c = "L" -> "l" [] c = "O" -> "o" [] c = "P" -> "p"
      [] c = "R" -> "r" [] c = "T" -> "t" [] c = "X" -> "x" [] OTHER -> c

Lower(str) == [k \in 1 .. Len(str) |-> LowerChar(str[k])]

\* ds_type compared as it is written, without lower()
DsKeyCaseSensitive == ds_type

\* ds_type.lower(), lines 129, 132, 136, 138
DsKey == Lower(ds_type)

bert == <<"b", "e", "r", "t">>
gpt_xl == <<"g", "p", "t", "-", "x", "l">>
gpt2 == <<"g", "p", "t", "2">>
block == <<"b", "l", "o", "c", "k">>

\* a dataset after wrap_dataset: the transform, its sample_across_doc and
\* the dataset it wraps; "plain" is a dataset returned as it came
Framed(kind, across, d) == [kind |-> kind, across |-> across, of |-> d]

NoneDS == Framed("None", "na", "None")

Flag(b) == IF b THEN "True" ELSE "False"

\* an assert that never fails
WrapAssertsNever == FALSE

\* line 133: assert pre_tokenize, in the 'gpt-xl' branch
WrapAsserts == DsKey = gpt_xl /\ ~pre_tokenize

\* lines 128-141
wrap_dataset(d) ==
    IF DsKey = bert THEN Framed("BertSentencepairDataset", "na", d)
    ELSE IF DsKey = gpt_xl THEN Framed("XLDataset", Flag(~sample_one_document), d)
    ELSE IF DsKey = gpt2 THEN Framed("GPT2Dataset", Flag(~sample_one_document), d)
    ELSE IF DsKey = block THEN Framed("BlockDataset", Flag(~sample_one_document), d)
    ELSE Framed("plain", "na", d)

\* the comprehension without its test for None
WrapSubsetsNoneToo(parts) == [k \in 1 .. Len(parts) |-> wrap_dataset(parts[k])]

\* line 154: [wrap_dataset(d) if d is not None else None for d in ds]
WrapSubsets(parts) ==
    [k \in 1 .. Len(parts) |-> IF parts[k] # "None" THEN wrap_dataset(parts[k]) ELSE NoneDS]

\* the export done by every rank
SavesTestDataAnyRank(p) == save_test_data # "None"

\* line 145: save_test_data is not None and torch.distributed.get_rank() == 0
SavesTestData(p) == save_test_data # "None" /\ p = 0

\* ---------------------------------------------------------------- Init
Paths == UNION {[1 .. n -> Names] : n \in 1 .. MaxPaths}

InPath(c) == \E k \in 1 .. Len(path) : path[k] = c

\* every rank at the first get_dataset call of make_dataset, nothing done yet
InitRun ==
    /\ fs0 = fs
    /\ pc = [p \in Ranks |-> "get_dataset"]
    /\ pos = [p \in Ranks |-> 1]
    /\ writers = [p \in Ranks |-> {}]
    /\ readers = [p \in Ranks |-> {}]
    /\ io = [p \in Ranks |-> FALSE]
    /\ err = [p \in Ranks |-> "none"]
    /\ wopened = [s \in Streams |-> 0]
    /\ wclosed = [s \in Streams |-> 0]
    /\ wby = {}
    /\ builds = [c \in Corpora |-> 0]
    /\ crashed = FALSE
    /\ ds = [p \in Ranks |-> <<>>]
    /\ result = [p \in Ranks |-> [list |-> FALSE, items |-> <<>>]]
    /\ split_called = [p \in Ranks |-> FALSE]
    /\ testfile = "absent"
    /\ tby = {}

\* line 113-115: the defaults of the keyword arguments
DefaultArgs ==
    /\ pre_tokenize = FALSE
    /\ ds_type = <<>>
    /\ sample_one_document = FALSE
    /\ save_test_data = "None"

\* the streams found at job start were written by a job with pre_tokenize = pt
WrittenWith(pt) ==
    [s \in Streams |-> IF fs[s] = Final THEN ArrStr(WriterIsArray(s, pt)) ELSE "none"]

Init ==
    /\ path \in Paths
    /\ isStr \in BOOLEAN
    /\ isStr => Len(path) = 1
    /\ split \in Splits
    /\ fs \in [Streams -> {Absent, Final}]
    /\ \A s \in Streams : ~InPath(s[1]) => fs[s] = Absent
    /\ DefaultArgs
    /\ warr = WrittenWith(pre_tokenize)
    /\ InitRun

\* ---------------------------------------------------------------- actions
Name(p) == path[pos[p]]

Raise(p, e) ==
    /\ pc' = [pc EXCEPT ![p] = "raised"]
    /\ err' = [err EXCEPT ![p] = e]

\* where a rank goes when the store is not complete (lines 60/67, 88/95)
BuildOrWait(p) == IF IsBuilder(p) THEN "writer1" ELSE "poll"

\* a probe that never finds the second stream
StoreCompleteNever(name) == FALSE

\* the test without its `not`
StoreCompleteNegated(name) ==
    ~(/\ exists_lazy(<<name, ExistsOrder(name)[1]>>)
      /\ exists_lazy(<<name, ExistsOrder(name)[2]>>))

\* lines 58/86: exists_lazy(path, first) and exists_lazy(path, second).  No file
\* is ever removed, so the two probes give what one probe of both gives at
\* the first or at the second moment: they are one step here.
StoreComplete(name) ==
    /\ exists_lazy(<<name, ExistsOrder(name)[1]>>)
    /\ exists_lazy(<<name, ExistsOrder(name)[2]>>)

\* the end of a get_dataset call that returned d: the next name of the list
\* (line 124) or, after the last, line 143
Return(p, d) ==
    /\ ds' = [ds EXCEPT ![p] = Append(@, d)]
    /\ pos' = [pos EXCEPT ![p] = @ + 1]
    /\ pc' = [pc EXCEPT ![p] =
                IF pos[p] < Len(path) THEN "get_dataset" ELSE "should_split"]

\* lines 54-60, 67, 85-88, 95, 104-105: supported_corpus(name), else raise
\* NotImplementedError; the dispatch on the corpus class, which falls through
\* and returns None for a class of neither kind; then the probe of the store
\* and the choice by rank
get_dataset(p) ==
    /\ pc[p] = "get_dataset"
    /\ IF ~supported_corpus(Name(p))
       THEN Raise(p, "NotImplementedError") /\ UNCHANGED <<pos, ds>>
       ELSE IF IsPromptReader(Name(p)) \/ IsKeyReader(Name(p))
       THEN /\ pc' = [pc EXCEPT ![p] =
                        IF StoreComplete(Name(p)) THEN "reader1" ELSE BuildOrWait(p)]
            /\ UNCHANGED <<err, pos, ds>>
       ELSE Return(p, "None") /\ err' = err
    /\ UNCHANGED <<args, path, isStr, split, fs, writers, readers, io,
                   wopened, wclosed, wby, builds, fs0, crashed, warr, outs>>

OpenWriter(p, k, next) ==
    LET s == <<Name(p), WriterOrder(Name(p))[k]>> IN
    /\ fs' = LazyWriter(s)
    /\ warr' = [warr EXCEPT ![s] = ArrStr(WriterIsArray(s, pre_tokenize))]
    /\ writers' = [writers EXCEPT ![p] = @ \cup {s}]
    /\ wopened' = [wopened EXCEPT ![s] = @ + 1]
    /\ wby' = wby \cup {p}
    /\ io' = [io EXCEPT ![p] = TRUE]
    /\ pc' = [pc EXCEPT ![p] = next]
    /\ UNCHANGED <<args, path, isStr, split, pos, readers, err,
                   wclosed, builds, fs0, crashed, ds, outs>>

\* lines 61/89
writer1(p) == pc[p] = "writer1" /\ OpenWriter(p, 1, "writer2")

\* lines 62/90
writer2(p) == pc[p] = "writer2" /\ OpenWriter(p, 2, "corpus")

\* lines 63-64/91-92: the corpus reader streams every document into both writers
corpus_reader(p) ==
    /\ pc[p] = "corpus"
    /\ builds' = [builds EXCEPT ![Name(p)] = @ + 1]
    /\ pc' = [pc EXCEPT ![p] = "close1"]
    /\ UNCHANGED <<args, path, isStr, split, fs, pos, writers, readers, io, err,
                   wopened, wclosed, wby, fs0, crashed, warr, ds, outs>>

CloseWriter(p, k, next) ==
    LET s == <<Name(p), CloseOrder(Name(p))[k]>> IN
    /\ fs' = LazyWriter_close(s)
    /\ writers' = [writers EXCEPT ![p] = @ \ {s}]
    /\ wclosed' = [wclosed EXCEPT ![s] = @ + 1]
    /\ pc' = [pc EXCEPT ![p] = next]
    /\ UNCHANGED <<args, path, isStr, split, pos, readers, io, err,
                   wopened, wby, builds, fs0, crashed, warr, ds, outs>>

\* lines 65/93
close1(p) == pc[p] = "close1" /\ CloseWriter(p, 1, "close2")

\* lines 66/94
close2(p) == pc[p] = "close2" /\ CloseWriter(p, 2, "reader1")

\* lines 68-69/96-97: while not os.path.exists(len_path): time.sleep(1)
poll(p) ==
    /\ pc[p] = "poll"
    /\ io' = [io EXCEPT ![p] = TRUE]
    /\ pc' = [pc EXCEPT ![p] =
                IF len_path_exists(<<Name(p), PollTag(Name(p))>>) THEN "reader1" ELSE "poll"]
    /\ UNCHANGED <<args, path, isStr, split, fs, pos, writers, readers, err,
                   wopened, wclosed, wby, builds, fs0, crashed, warr, ds, outs>>

\* lines 71-72/99: the first LazyLoader
reader1(p) ==
    LET s == <<Name(p), ReaderOrder(Name(p))[1]>> IN
    /\ pc[p] = "reader1"
    /\ IF LazyLoader_ok(s)
       THEN /\ readers' = [readers EXCEPT ![p] = @ \cup {s}]
            /\ pc' = [pc EXCEPT ![p] = "reader2"]
            /\ err' = err
       ELSE /\ Raise(p, "FileNotFoundError")
            /\ readers' = readers
    /\ io' = [io EXCEPT ![p] = TRUE]
    /\ UNCHANGED <<args, path, isStr, split, fs, pos, writers,
                   wopened, wclosed, wby, builds, fs0, crashed, warr, ds, outs>>

\* lines 73-84/100-103: the second LazyLoader, the record view, return; then the
\* next name of the list (line 124) or, after the last, line 143
reader2(p) ==
    LET s == <<Name(p), ReaderOrder(Name(p))[2]>> IN
    /\ pc[p] = "reader2"
    /\ IF LazyLoader_ok(s)
       THEN /\ readers' = [readers EXCEPT ![p] = @ \cup {s}]
            /\ Return(p, ViewOf(Name(p)))
            /\ err' = err
       ELSE /\ Raise(p, "FileNotFoundError")
            /\ UNCHANGED <<readers, pos, ds>>
    /\ io' = [io EXCEPT ![p] = TRUE]
    /\ UNCHANGED <<args, path, isStr, split, fs, writers,
                   wopened, wclosed, wby, builds, fs0, crashed, warr, outs>>

\* line 143
make_dataset_should_split(p) ==
    /\ pc[p] = "should_split"
    /\ IF should_split_raises(split)
       THEN Raise(p, "ZeroDivisionError")
       ELSE /\ pc' = [pc EXCEPT ![p] = IF should_split(split) THEN "split_ds" ELSE "wrap"]
            /\ err' = err
    /\ UNCHANGED <<args, path, isStr, split, fs, pos, writers, readers, io,
                   wopened, wclosed, wby, builds, fs0, crashed, warr, ds, outs>>

\* lines 121-125: the dataset after the loop
BaseDs(p) == IF isStr THEN ds[p][1] ELSE "ConcatDataset"

\* line 154 and the return of line 157
ReturnSubsets(p, parts) ==
    IF WrapAsserts /\ \E k \in 1 .. Len(parts) : parts[k] # "None"
    THEN Raise(p, "AssertionError") /\ result' = result
    ELSE /\ result' = [result EXCEPT ![p] = [list |-> TRUE, items |-> WrapSubsets(parts)]]
         /\ pc' = [pc EXCEPT ![p] = "done"]
         /\ err' = err

\* lines 144-154, 157: split_ds, the export of the test subset by rank 0 (the
\* file is opened for writing before the subset is iterated), the wrapping
make_dataset_split(p) ==
    /\ pc[p] = "split_ds"
    /\ split_called' = [split_called EXCEPT ![p] = TRUE]
    /\ LET parts == split_ds(split) IN
       IF SavesTestData(p)
       THEN /\ tby' = tby \cup {p}
            /\ IF parts[Len(parts)] = "None"
               THEN /\ testfile' = "empty"
                    /\ Raise(p, "TypeError")
                    /\ result' = result
               ELSE /\ testfile' = "written"
                    /\ ReturnSubsets(p, parts)
       ELSE /\ UNCHANGED <<testfile, tby>>
            /\ ReturnSubsets(p, parts)
    /\ UNCHANGED <<args, path, isStr, split, fs, pos, writers, readers, io,
                   wopened, wclosed, wby, builds, fs0, crashed, warr, ds>>

\* lines 155-157
make_dataset_wrap(p) ==
    /\ pc[p] = "wrap"
    /\ IF WrapAsserts
       THEN Raise(p, "AssertionError") /\ result' = result
       ELSE /\ result' = [result EXCEPT ![p] =
                            [list |-> FALSE, items |-> <<wrap_dataset(BaseDs(p))>>]]
            /\ pc' = [pc EXCEPT ![p] = "done"]
            /\ err' = err
    /\ UNCHANGED <<args, path, isStr, split, fs, pos, writers, readers, io,
                   wopened, wclosed, wby, builds, fs0, crashed, warr, ds,
                   split_called, testfile, tby>>

\* the builder process is terminated after it opened its two writers and before
\* it closed the last one; its file handles go away, nothing more is finalized
MidBuild == {"corpus", "close1", "close2"}

Crash ==
    /\ pc[0] \in MidBuild
    /\ pc' = [pc EXCEPT ![0] = "crashed"]
    /\ writers' = [writers EXCEPT ![0] = {}]
    /\ crashed' = TRUE
    /\ UNCHANGED <<args, path, isStr, split, fs, pos, readers, io, err,
                   wopened, wclosed, wby, builds, fs0, warr, ds, outs>>

Step(p) ==
    \/ get_dataset(p)
    \/ writer1(p)
    \/ writer2(p)
    \/ corpus_reader(p)
    \/ close1(p)
    \/ close2(p)
    \/ poll(p)
    \/ reader1(p)
    \/ reader2(p)
    \/ make_dataset_should_split(p)
    \/ make_dataset_split(p)
    \/ make_dataset_wrap(p)

Next == (\E p \in Ranks : Step(p)) \/ Crash

Spec == Init /\ [][Next]_vars

\* a job started on a filesystem that holds no store at all
InitFresh == Init /\ \A s \in Streams : fs[s] = Absent

SpecFresh == InitFresh /\ [][Next]_vars

\* one fresh corpus given as a string: the setting of the jobs that exercise
\* the tail of make_dataset (lines 143-157)
OneFreshCorpus ==
    /\ path = <<"prompt_corpus">>
    /\ isStr = TRUE
    /\ fs = [s \in Streams |-> Absent]

\* proportion lists: every list of at most MaxSplitLen entries from
\* -1 .. MaxProp, and the two lists of the doctest of should_split
\* (lines 38-41), [1, .1, .2] in tenths
MaxSplitLen == 3
MaxProp == 2
SplitLists == UNION {[1 .. n -> -1 .. MaxProp] : n \in 1 .. MaxSplitLen}
SplitInputs == SplitLists \cup {<<10, 0, 0>>, <<10, 1, 2>>}

InitSplit ==
    /\ OneFreshCorpus
    /\ split \in SplitInputs
    /\ DefaultArgs
    /\ warr = WrittenWith(pre_tokenize)
    /\ InitRun

SpecSplit == InitSplit /\ [][Next]_vars

\* a job on one corpus whose store was left, whole or in part, by an earlier
\* job on the same path that ran with pre_tokenize = pt; this job has its own
\* pre_tokenize
InitJobs ==
    /\ path \in {<<"prompt_corpus">>, <<"key_corpus">>}
    /\ isStr = TRUE
    /\ split \in {<<1>>, <<1, 1>>}
    /\ fs \in [Streams -> {Absent, Final}]
    /\ \A s \in Streams : ~InPath(s[1]) => fs[s] = Absent
    /\ pre_tokenize \in BOOLEAN
    /\ ds_type = <<>>
    /\ sample_one_document = FALSE
    /\ save_test_data = "None"
    /\ \E pt \in BOOLEAN : warr = WrittenWith(pt)
    /\ InitRun

SpecJobs == InitJobs /\ [][Next]_vars

\* values of ds_type: the four names wrap_dataset knows, each also in another
\* letter case, the default '' and a name it does not know ('lm')
BertNames == {bert, <<"B", "E", "R", "T">>}
GptXlNames == {gpt_xl, <<"G", "P", "T", "-", "X", "L">>}
Gpt2Names == {gpt2, <<"G", "p", "t", "2">>}
BlockNames == {block, <<"B", "l", "o", "c", "k">>}
DsTypes == BertNames \cup GptXlNames \cup Gpt2Names \cup BlockNames \cup {<<>>, <<"l", "m">>}

\* the default [1.] of line 118 and proportion lists in tenths: one subset
\* that takes everything, a test subset of proportion 0, three subsets, a
\* train subset of proportion 0
MakeSplits == {<<1>>, <<10, 0, 0>>, <<9, 1, 0>>, <<8, 1, 1>>, <<0, 9, 1>>}

InitMake ==
    /\ OneFreshCorpus
    /\ split \in MakeSplits
    /\ pre_tokenize \in BOOLEAN
    /\ ds_type \in DsTypes
    /\ sample_one_document \in BOOLEAN
    /\ save_test_data \in {"None", "test.txt"}
    /\ warr = WrittenWith(pre_tokenize)
    /\ InitRun

SpecMake == InitMake /\ [][Next]_vars

\* ---------------------------------------------------------------- claims
AllFinal(name) == \A s \in StreamsOf(name) : len_path_exists(s)

StoreAbsentAtStart(c) == \A s \in StreamsOf(c) : fs0[s] = Absent

WriterOpenOn(name) == \E q \in Ranks : \E s \in writers[q] : s[1] = name

ReturnedFrom(p, c) == \E k \in 1 .. (pos[p] - 1) : path[k] = c

AllRegistered == \A k \in 1 .. Len(path) : supported_corpus(path[k])

InvalidSplit(s) == SumSeq(s) <= 0 \/ \E k \in 1 .. Len(s) : s[k] < 0

\* C1: a rank other than 0 leaves its poll loop only when the length index of
\* every stream of the corpus exists.
C1_LeavesPollOnlyWhenAllFinal ==
    [][\A p \in Ranks :
          (p # 0 /\ pc[p] = "poll" /\ pc'[p] # "poll") => AllFinal(Name(p))]_vars

\* C2: whenever a rank opens a LazyLoader on a stream of a corpus, no rank
\* holds an open LazyWriter on any stream of that corpus.
C2_NoWriterWhenReaderOpens ==
    [][\A p \in Ranks :
          (pc[p] \in {"reader1", "reader2"} /\ pc'[p] # pc[p] /\ pc'[p] # "raised")
              => ~WriterOpenOn(Name(p))]_vars

\* C3: only rank 0 ever constructs a LazyWriter, so no two ranks hold a writer
\* on the same stream and a rank other than 0 never writes a store file.
C3_OnlyRankZeroWrites ==
    /\ wby \subseteq {0}
    /\ \A p \in Ranks : p # 0 => writers[p] = {}
    /\ \A p, q \in Ranks : p # q => writers[p] \cap writers[q] = {}

\* rank 0 holds both writers while another rank waits in the poll loop
C3_Witness ==
    /\ Cardinality(writers[0]) = 2
    /\ \E p \in Ranks : p # 0 /\ pc[p] = "poll" /\ io[p]

\* C4: a stream whose length index exists is never written again: no writer
\* is opened on it and its files stay as they are.
C4_FinalizedStreamImmutable ==
    [][\A s \in Streams :
          len_path_exists(s) => (wopened'[s] = wopened[s] /\ fs'[s] = fs[s])]_vars

\* C5: in a job started with the store of a corpus absent, the build of that
\* corpus (two writers opened, one run of the corpus reader, two writers
\* closed) happens at most once, and exactly once when rank 0 has returned
\* from a get_dataset call for it.
C5_BuiltExactlyOnce ==
    \A c \in Corpora :
        StoreAbsentAtStart(c) =>
            /\ builds[c] <= 1
            /\ \A s \in StreamsOf(c) : wopened[s] <= 1 /\ wclosed[s] <= 1
            /\ ReturnedFrom(0, c) =>
                  /\ builds[c] = 1
                  /\ \A s \in StreamsOf(c) : wopened[s] = 1 /\ wclosed[s] = 1

\* every rank has returned from two calls for the same corpus, built from nothing
C5_Witness ==
    \E c \in Corpora :
        /\ StoreAbsentAtStart(c)
        /\ Len(path) >= 2 /\ path[1] = c /\ path[2] = c
        /\ \A p \in Ranks : pos[p] > 2
        /\ builds[c] = 1

\* C6: after rank 0 crashed in the middle of a build, a rank that polls for
\* that corpus stays in the poll loop.
C6_WaitersPollForever ==
    [][\A p \in Ranks :
          (crashed /\ pc[p] = "poll" /\ Name(p) = Name(0)) => pc'[p] = "poll"]_vars

\* C7: when rank 0 does not crash and every name is registered, a rank's
\* make_dataset never ends without both readers of every corpus opened.
C7_EveryRankOpensAllReaders ==
    (~crashed /\ AllRegistered) =>
        \A p \in Ranks :
            pc[p] \in {"raised", "done"} =>
                \A k \in 1 .. Len(path) : StreamsOf(path[k]) \subseteq readers[p]

\* C8: a rank that enters get_dataset while both streams of the corpus are
\* finalized goes straight to the readers (no writer, no corpus reader, no
\* poll), and no step changes the files of a finalized store, that is, one
\* whose two streams exist with no writer open on them.
C8_CompleteStoreIsOnlyRead ==
    [][/\ \A p \in Ranks :
            (pc[p] = "get_dataset" /\ supported_corpus(Name(p))
                /\ \A s \in StreamsOf(Name(p)) : exists_lazy(s))
                => pc'[p] \in {"get_dataset", "reader1"}
       /\ \A c \in Corpora :
            ((\A s \in StreamsOf(c) : exists_lazy(s)) /\ ~WriterOpenOn(c))
                => /\ builds'[c] = builds[c]
                   /\ \A s \in StreamsOf(c) :
                         fs'[s] = fs[s] /\ wopened'[s] = wopened[s]]_vars

\* every rank, rank 0 included, reached the first reader of a store that was
\* complete at job start, with no writer, no poll and no build
C8_Witness ==
    /\ supported_corpus(path[1])
    /\ \A s \in StreamsOf(path[1]) : fs0[s] = Final
    /\ \A p \in Ranks : pc[p] = "reader1" /\ pos[p] = 1 /\ ~io[p]
    /\ wby = {}

\* C9: a rank whose make_dataset ended with NotImplementedError has opened no
\* writer and no reader and has not polled.
C9_UnregisteredRaisesBeforeIO ==
    \A p \in Ranks :
        err[p] = "NotImplementedError" => (~io[p] /\ readers[p] = {} /\ p \notin wby)

\* C10: with invalid split proportions no rank does any store I/O and none
\* reaches the splitter or returns a dataset.
C10_InvalidSplitRejectedBeforeIO ==
    InvalidSplit(split) =>
        \A p \in Ranks : ~io[p] /\ pc[p] \notin {"split_ds", "wrap", "done"}

\* C11: should_split is a pure predicate: on every list with nonzero sum it
\* answers false exactly when the largest entry equals the sum of the entries,
\* false on [10, 0, 0] and true on [1, .1, .2], and the call changes nothing
\* but the position of the caller.
C11_ShouldSplitIsPure ==
    [][\A p \in Ranks :
          (pc[p] = "should_split" /\ pc'[p] # "should_split" /\ SumSeq(split) # 0)
              => /\ pc'[p] \in {"split_ds", "wrap"}
                 /\ (pc'[p] = "wrap") <=> (MaxSeq(split) = SumSeq(split))
                 /\ split = <<10, 0, 0>> => pc'[p] = "wrap"
                 /\ split = <<10, 1, 2>> => pc'[p] = "split_ds"
                 /\ UNCHANGED <<path, isStr, split, fs, pos, writers, readers, io, err,
                                wopened, wclosed, wby, builds, fs0, crashed, args,
                                warr, ds, outs>>]_vars

\* every rank got the answer false for [2, -1, 1], a list of three nonzero
\* entries whose largest entry equals its sum
C11_Witness ==
    /\ split = <<2, -1, 1>>
    /\ \A p \in Ranks : pc[p] = "wrap"

\* C12: the is_array flag of a store is fixed: over jobs on the same corpus
\* path, with whatever pre_tokenize, every reader a rank holds was opened with
\* the is_array value its stream was written with, and a returned record view
\* has to_tokenize exactly when the stored text stream holds raw text.
C12_IsArrayFixedPerStore ==
    \A p \in Ranks :
        /\ \A s \in readers[p] : ArrStr(ReaderIsArray(s, pre_tokenize)) = warr[s]
        /\ \A k \in 1 .. Len(ds[p]) :
              to_tokenize <=> (warr[<<path[k], "text">>] = "text")

\* C13: for a registered corpus name get_dataset never returns None: every
\* value a rank got back from it is a record view, {prompt, text} for a
\* PromptReader corpus and {mask, text} for a KeyReader corpus.
C13_NeverReturnsNone ==
    \A p \in Ranks :
        /\ Len(ds[p]) = pos[p] - 1
        /\ \A k \in 1 .. Len(ds[p]) :
              /\ ds[p][k] \in {"PromptDataset", "KeyDataset"}
              /\ path[k] = "prompt_corpus" => ds[p][k] = "PromptDataset"
              /\ path[k] = "key_corpus" => ds[p][k] = "KeyDataset"

\* a rank got a view of each shape back from two get_dataset calls
C13_Witness ==
    \E p \in Ranks : ds[p] = <<"PromptDataset", "KeyDataset">>

SplitsHere == SumSeq(split) # 0 /\ MaxSeq(split) # SumSeq(split)

\* C14: splitting comes before framing: a rank calls the splitter only when
\* should_split is true; what it returns then is a list with one entry per
\* split position, None where the subset is None and the subset framed by
\* wrap_dataset elsewhere; when should_split is false it returns one framed
\* dataset and never called the splitter.
C14_SplitBeforeFraming ==
    \A p \in Ranks :
        /\ split_called[p] => SplitsHere
        /\ pc[p] = "done" =>
              IF SplitsHere
              THEN /\ split_called[p]
                   /\ result[p].list
                   /\ Len(result[p].items) = Len(split)
                   /\ \A k \in 1 .. Len(split) :
                         IF split[k] = 0
                         THEN result[p].items[k] = NoneDS
                         ELSE /\ result[p].items[k].of = "SplitDataset"
                              /\ result[p].items[k] = wrap_dataset("SplitDataset")
              ELSE /\ ~split_called[p]
                   /\ ~result[p].list
                   /\ result[p].items = <<wrap_dataset("PromptDataset")>>

\* every rank returned a list whose first entry is None and whose other two
\* entries are GPT2Dataset frames, rank 0 after the export of the test subset
C14_Witness ==
    /\ split = <<0, 9, 1>>
    /\ ds_type = gpt2
    /\ save_test_data # "None"
    /\ \A p \in Ranks :
          /\ pc[p] = "done"
          /\ result[p].items[1] = NoneDS
          /\ result[p].items[3].kind = "GPT2Dataset"

\* C15: wrap_dataset picks the transform from ds_type whatever its letter
\* case (bert: sentence pairs, gpt-xl: recurrent memory, gpt2: contiguous
\* window, block: block window), passes sample_across_doc = not
\* sample_one_document to the three window transforms, and for any other
\* ds_type returns the dataset as it came, without an error.
C15_WrapByDsType ==
    \A p \in Ranks :
        /\ ds_type \notin GptXlNames => err[p] # "AssertionError"
        /\ \A k \in 1 .. Len(result[p].items) :
              LET r == result[p].items[k] IN
              r # NoneDS =>
                  /\ ds_type \in BertNames => r.kind = "BertSentencepairDataset"
                  /\ ds_type \in GptXlNames => r.kind = "XLDataset"
                  /\ ds_type \in Gpt2Names => r.kind = "GPT2Dataset"
                  /\ ds_type \in BlockNames => r.kind = "BlockDataset"
                  /\ ds_type \in GptXlNames \cup Gpt2Names \cup BlockNames =>
                        /\ sample_one_document => r.across = "False"
                        /\ ~sample_one_document => r.across = "True"
                  /\ ds_type \in {<<>>, <<"l", "m">>} =>
                        /\ r.kind = "plain"
                        /\ r.of = IF result[p].list THEN "SplitDataset" ELSE "PromptDataset"

\* ds_type 'Block' with sample_one_document: every rank returned a
\* BlockDataset with sample_across_doc False
C15_Witness ==
    /\ ds_type = <<"B", "l", "o", "c", "k">>
    /\ sample_one_document
    /\ \A p \in Ranks :
          /\ pc[p] = "done"
          /\ result[p].items[1].kind = "BlockDataset"
          /\ result[p].items[1].across = "False"

\* C16: a None subset never makes make_dataset fail: when the last (test)
\* subset of the split is None, no rank fails on it, whatever save_test_data.
C16_NoneSubsetNeverFails ==
    \A p \in Ranks :
        (SplitsHere /\ split[Len(split)] = 0) => err[p] # "TypeError"

\* C17: the test-data file is written by rank 0 alone and only after a split:
\* no other rank touches it, and it exists only when should_split is true,
\* save_test_data is given and rank 0 has been through the splitter.
C17_OnlyRankZeroExports ==
    /\ tby \subseteq {0}
    /\ testfile # "absent" =>
          /\ SplitsHere
          /\ save_test_data # "None"
          /\ split_called[0]
          /\ tby = {0}

\* rank 0 wrote the test subset and every rank, with save_test_data given to
\* all of them, has returned
C17_Witness ==
    /\ testfile = "written"
    /\ save_test_data = "test.txt"
    /\ \A p \in Ranks : pc[p] = "done"

\* C18: with ds_type 'gpt-xl' in any letter case and pre_tokenize false no
\* rank returns and no XLDataset is constructed; a rank that comes to frame
\* the unsplit dataset or the split subsets fails on the assertion.  (Rank 0
\* exporting a test subset that is None has failed before the framing.)
C18_XLOnlyOverPreTokenized ==
    [][\A p \in Ranks :
          (ds_type \in GptXlNames /\ ~pre_tokenize) =>
              /\ pc'[p] # "done"
              /\ result'[p].items = <<>>
              /\ (pc[p] = "wrap" /\ pc'[p] # "wrap") => err'[p] = "AssertionError"
              /\ (/\ pc[p] = "split_ds" /\ pc'[p] # "split_ds"
                  /\ ~(p = 0 /\ save_test_data # "None" /\ split[Len(split)] = 0))
                    => err'[p] = "AssertionError"]_vars

\* ds_type 'GPT-XL' without pre_tokenize on a split into three subsets: every
\* rank failed on the assertion
C18_Witness ==
    /\ ds_type = <<"G", "P", "T", "-", "X", "L">>
    /\ ~pre_tokenize
    /\ split = <<8, 1, 1>>
    /\ \A p \in Ranks : err[p] = "AssertionError"

====
